---------------------------- MODULE Spec2Model ----------------------------
(***************************************************************************)
(* Model of the table component family (src/components/ui/table.tsx) and   *)
(* of the landing page composition (src/app/page.tsx).                      *)
(*                                                                         *)
(* An attribute value is a string, kept as the sequence of its             *)
(* whitespace-separated tokens: "w-full text-sm" is <<"w-full","text-sm">>,*)
(* "selected" is <<"selected">> and the empty string is <<>>.  An          *)
(* attribute bag is a function from attribute names to such values.        *)
(***************************************************************************)
EXTENDS Naturals, Sequences, FiniteSets, TLC

VARIABLES
    descriptor,  \* the exported descriptor being called
    attrs,       \* its argument: the attribute bag, className included
    element,     \* the element it returned (NotRendered before the call)
    producer,    \* per render instance and section: idle, pending, resolved
    boundary     \* per render instance and section: unmounted, fallback, content

vars == <<descriptor, attrs, element, producer, boundary>>
tableVars == <<descriptor, attrs, element>>
pageVars == <<producer, boundary>>

(***************************************************************************)
(* Bounds.                                                                 *)
(***************************************************************************)
\* longest caller className, in class tokens
MaxClasses == 2
\* number of render instances (requests) of the page
NumRenders == 2

(***************************************************************************)
(* JavaScript object helpers used by every descriptor.                     *)
(***************************************************************************)
EmptyBag == [k \in {} |-> <<>>]

\* a JSX attribute  name=value
Attr(k, v) == [x \in {k} |-> v]

\* JSX attributes are evaluated left to right; a later attribute, or a key
\* of a later spread {...b}, replaces an earlier one of the same name
Assign(a, b) ==
    [k \in (DOMAIN a) \cup (DOMAIN b) |-> IF k \in DOMAIN b THEN b[k] ELSE a[k]]

\* ({ className, ...props }): the className binding; undefined when the key
\* is absent.  The binding is only ever handed to cn, which drops undefined
\* and the empty string alike, so undefined is kept as the empty value.
ClassNameOf(bag) == IF "className" \in DOMAIN bag THEN bag["className"] ELSE <<>>

\* ({ className, ...props }): the rest binding, every key but className
RestProps(bag) == [k \in (DOMAIN bag) \ {"className"} |-> bag[k]]

Element(kind, attributes, children) ==
    [kind |-> kind, attrs |-> attributes, children |-> children]

(***************************************************************************)
(* The class merging utility cn: the fragments are joined in order, falsy  *)
(* ones dropped, and a class is removed when a later class of the same     *)
(* utility group follows it (later fragments win).                         *)
(***************************************************************************)
NoGroup == "none"

ClassGroup(c) ==
    CASE c = "w-full" -> "w"
      [] c = "caption-bottom" -> "caption-side"
      [] c \in {"text-sm", "text-lg"} -> "font-size"
      [] c \in {"[&_tr]:border-b", "[&_tr]:border-b-2"} -> "[&_tr]:border-w-b"
      [] c \in {"[&_tr:last-child]:border-0", "[&_tr:last-child]:border-2"}
            -> "[&_tr:last-child]:border-w"
      [] c = "bg-muted/50" -> "bg-color"
      [] c = "border-t" -> "border-w-t"
      [] c \in {"font-medium", "font-bold"} -> "font-weight"
      [] c = "[&>tr]:last:border-b-0" -> "[&>tr]:last:border-w-b"
      [] c = "hover:bg-muted/50" -> "hover:bg-color"
      [] c = "data-[state=selected]:bg-muted" -> "data-[state=selected]:bg-color"
      [] c \in {"border-b", "border-b-2"} -> "border-w-b"
      [] c = "transition-colors" -> "transition"
      [] c \in {"text-foreground", "text-muted-foreground"} -> "text-color"
      [] c = "h-10" -> "h"
      [] c = "px-2" -> "px"
      [] c = "p-2" -> "p"
      [] c = "text-left" -> "text-alignment"
      [] c \in {"align-middle", "align-top"} -> "vertical-align"
      [] c = "whitespace-nowrap" -> "whitespace"
      [] c = "[&:has([role=checkbox])]:pr-0" -> "[&:has([role=checkbox])]:pr"
      [] c = "[&>[role=checkbox]]:translate-y-[2px]"
            -> "[&>[role=checkbox]]:translate-y"
      [] c = "mt-4" -> "mt"
      [] OTHER -> NoGroup

Conflicts(earlier, later) ==
    /\ ClassGroup(earlier) # NoGroup
    /\ ClassGroup(earlier) = ClassGroup(later)

RECURSIVE Join(_)
Join(fragments) ==
    IF fragments = <<>> THEN <<>>
    ELSE Head(fragments) \o Join(Tail(fragments))

RECURSIVE MergeFrom(_, _)
MergeFrom(tokens, i) ==
    IF i > Len(tokens) THEN <<>>
    ELSE IF \E j \in (i + 1)..Len(tokens) : Conflicts(tokens[i], tokens[j])
         THEN MergeFrom(tokens, i + 1)
         ELSE <<tokens[i]>> \o MergeFrom(tokens, i + 1)

cn(fragments) == MergeFrom(Join(fragments), 1)

(***************************************************************************)
(* The descriptors.  Each destructures className out of its argument,      *)
(* writes data-slot, then className, then spreads the rest.                *)
(***************************************************************************)
ContainerClasses == <<"relative", "w-full", "overflow-x-auto">>
TableClasses == <<"w-full", "caption-bottom", "text-sm">>
TableHeaderClasses == <<"[&_tr]:border-b">>
TableBodyClasses == <<"[&_tr:last-child]:border-0">>
TableFooterClasses ==
    <<"bg-muted/50", "border-t", "font-medium", "[&>tr]:last:border-b-0">>
TableRowClasses ==
    <<"hover:bg-muted/50", "data-[state=selected]:bg-muted", "border-b",
      "transition-colors">>
TableHeadClasses ==
    <<"text-foreground", "h-10", "px-2", "text-left", "align-middle",
      "font-medium", "whitespace-nowrap", "[&:has([role=checkbox])]:pr-0",
      "[&>[role=checkbox]]:translate-y-[2px]">>
TableCellClasses ==
    <<"p-2", "align-middle", "whitespace-nowrap",
      "[&:has([role=checkbox])]:pr-0", "[&>[role=checkbox]]:translate-y-[2px]">>
TableCaptionClasses == <<"text-muted-foreground", "mt-4", "text-sm">>

\* the literal attributes of the scroll container
ContainerAttrs ==
    Assign(Attr("data-slot", <<"table-container">>),
           Attr("className", ContainerClasses))

Table(bag) ==
    LET className == ClassNameOf(bag)
        props == RestProps(bag)
    IN  Element("div", ContainerAttrs,
            <<Element("table",
                Assign(Assign(Attr("data-slot", <<"table">>),
                              Attr("className", cn(<<TableClasses, className>>))),
                       props),
                <<>>)>>)

TableHeader(bag) ==
    LET className == ClassNameOf(bag)
        props == RestProps(bag)
    IN  Element("thead",
            Assign(Assign(Attr("data-slot", <<"table-header">>),
                          Attr("className", cn(<<TableHeaderClasses, className>>))),
                   props),
            <<>>)

TableBody(bag) ==
    LET className == ClassNameOf(bag)
        props == RestProps(bag)
    IN  Element("tbody",
            Assign(Assign(Attr("data-slot", <<"table-body">>),
                          Attr("className", cn(<<TableBodyClasses, className>>))),
                   props),
            <<>>)

\* bug variant: the caller's classes are merged before the defaults
TableFooter_CallerFirst(bag) ==
    Element("tfoot",
        Assign(Assign(Attr("data-slot", <<"table-footer">>),
                      Attr("className", cn(<<ClassNameOf(bag), TableFooterClasses>>))),
               RestProps(bag)),
        <<>>)

TableFooter(bag) ==
    LET className == ClassNameOf(bag)
        props == RestProps(bag)
    IN  Element("tfoot",
            Assign(Assign(Attr("data-slot", <<"table-footer">>),
                          Attr("className", cn(<<TableFooterClasses, className>>))),
                   props),
            <<>>)

TableRow(bag) ==
    LET className == ClassNameOf(bag)
        props == RestProps(bag)
    IN  Element("tr",
            Assign(Assign(Attr("data-slot", <<"table-row">>),
                          Attr("className", cn(<<TableRowClasses, className>>))),
                   props),
            <<>>)

\* bug variant: className is not destructured out, so the spread carries it
TableHead_SpreadsClassName(bag) ==
    Element("th",
        Assign(Assign(Attr("data-slot", <<"table-head">>),
                      Attr("className", cn(<<TableHeadClasses, ClassNameOf(bag)>>))),
               bag),
        <<>>)

TableHead(bag) ==
    LET className == ClassNameOf(bag)
        props == RestProps(bag)
    IN  Element("th",
            Assign(Assign(Attr("data-slot", <<"table-head">>),
                          Attr("className", cn(<<TableHeadClasses, className>>))),
                   props),
            <<>>)

\* bug variant: the rest of the attribute bag is not spread onto the cell
TableCell_NoSpread(bag) ==
    Element("td",
        Assign(Attr("data-slot", <<"table-cell">>),
               Attr("className", cn(<<TableCellClasses, ClassNameOf(bag)>>))),
        <<>>)

TableCell(bag) ==
    LET className == ClassNameOf(bag)
        props == RestProps(bag)
    IN  Element("td",
            Assign(Assign(Attr("data-slot", <<"table-cell">>),
                          Attr("className", cn(<<TableCellClasses, className>>))),
                   props),
            <<>>)

TableCaption(bag) ==
    LET className == ClassNameOf(bag)
        props == RestProps(bag)
    IN  Element("caption",
            Assign(Assign(Attr("data-slot", <<"table-caption">>),
                          Attr("className", cn(<<TableCaptionClasses, className>>))),
                   props),
            <<>>)

\* the export list
Descriptors ==
    {"Table", "TableHeader", "TableBody", "TableFooter", "TableHead",
     "TableRow", "TableCell", "TableCaption"}

(***************************************************************************)
(* The inputs a caller may hand to a descriptor.                           *)
(***************************************************************************)
CallerClasses ==
    {"foo", "text-lg", "font-bold", "align-top", "border-b-2",
     "[&_tr]:border-b-2", "[&_tr:last-child]:border-2"}

RECURSIVE SeqsUpTo(_, _)
SeqsUpTo(S, n) ==
    IF n = 0 THEN {<<>>}
    ELSE LET shorter == SeqsUpTo(S, n - 1)
         IN  shorter \cup {Append(q, c) : q \in shorter, c \in S}

ClassNames == SeqsUpTo(CallerClasses, MaxClasses)

PropKeys == {"data-slot", "data-state", "id"}
PropValues == {<<"selected">>, <<"custom">>}

PropBags == UNION {[K -> PropValues] : K \in SUBSET PropKeys}

AttributeBags ==
    PropBags \cup {Assign(p, Attr("className", c)) : p \in PropBags, c \in ClassNames}

NotRendered == Element("none", EmptyBag, <<>>)

(***************************************************************************)
(* The page composition.  Every request renders a fresh instance of Page.  *)
(* Each of the two Suspense boundaries shows its fallback while its child  *)
(* is suspended on the child's content producer, and is retried once the   *)
(* producer has resolved.                                                  *)
(***************************************************************************)
Renders == 1..NumRenders
Sections == {"overview", "trending"}

\* <Suspense fallback={fallback}>{child}</Suspense> in boundary state b
Suspense(fallback, child, b) ==
    CASE b = "fallback" -> <<fallback>>
      [] b = "content" -> <<child>>
      [] OTHER -> <<>>

\* bug variant: the two fallbacks are exchanged
PageTree_SwappedFallbacks(b) ==
    Element("main", Attr("className", <<"main-container">>),
        << Element("section", Attr("className", <<"home-grid">>),
               Suspense("TrendingCoinsFallback", "CoinOverview", b["overview"])
               \o Suspense("CoinOverviewFallback", "TrendingCoins", b["trending"])),
           Element("section", Attr("className", <<"w-full", "mt-7", "space-y-4">>),
               <<Element("p", EmptyBag, <<"Categories">>)>>) >>)

\* bug variant: the Categories section waits for both deferred sections
PageTree_CategoriesDeferred(b) ==
    Element("main", Attr("className", <<"main-container">>),
        << Element("section", Attr("className", <<"home-grid">>),
               Suspense("CoinOverviewFallback", "CoinOverview", b["overview"])
               \o Suspense("TrendingCoinsFallback", "TrendingCoins", b["trending"])),
           Element("section", Attr("className", <<"w-full", "mt-7", "space-y-4">>),
               IF \A s \in DOMAIN b : b[s] = "content"
               THEN <<Element("p", EmptyBag, <<"Categories">>)>>
               ELSE <<>>) >>)

\* the tree Page returns, given the state of its two boundaries
PageTree(b) ==
    Element("main", Attr("className", <<"main-container">>),
        << Element("section", Attr("className", <<"home-grid">>),
               Suspense("CoinOverviewFallback", "CoinOverview", b["overview"])
               \o Suspense("TrendingCoinsFallback", "TrendingCoins", b["trending"])),
           Element("section", Attr("className", <<"w-full", "mt-7", "space-y-4">>),
               <<Element("p", EmptyBag, <<"Categories">>)>>) >>)

Rendered(r) == \A s \in Sections : boundary[r][s] # "unmounted"

\* the markup of render instance r
Markup(r) == IF Rendered(r) THEN PageTree(boundary[r]) ELSE NotRendered

\* Page is called for request r: both children suspend on their producers,
\* so both boundaries mount showing their fallbacks
Page(r) ==
    /\ \A s \in Sections : boundary[r][s] = "unmounted"
    /\ producer' = [producer EXCEPT ![r] = [s \in Sections |-> "pending"]]
    /\ boundary' = [boundary EXCEPT ![r] = [s \in Sections |-> "fallback"]]
    /\ UNCHANGED tableVars

\* the content producer of section s produces its content
Resolve(r, s) ==
    /\ producer[r][s] = "pending"
    /\ producer' = [producer EXCEPT ![r][s] = "resolved"]
    /\ UNCHANGED <<boundary, tableVars>>

\* bug variant: a retried boundary may fall back again
Retry_Toggle(r, s) ==
    /\ boundary[r][s] # "unmounted"
    /\ producer[r][s] = "resolved"
    /\ boundary' = [boundary EXCEPT
                      ![r][s] = IF @ = "fallback" THEN "content" ELSE "fallback"]
    /\ UNCHANGED <<producer, tableVars>>

\* bug variant: one boundary around both children, revealed in order
Retry_Serialized(r, s) ==
    /\ boundary[r][s] = "fallback"
    /\ producer[r][s] = "resolved"
    /\ s = "trending" => boundary[r]["overview"] = "content"
    /\ boundary' = [boundary EXCEPT ![r][s] = "content"]
    /\ UNCHANGED <<producer, tableVars>>

\* the boundary of section s is retried after its producer resolved and
\* replaces the fallback by the child's content
Retry(r, s) ==
    /\ boundary[r][s] = "fallback"
    /\ producer[r][s] = "resolved"
    /\ boundary' = [boundary EXCEPT ![r][s] = "content"]
    /\ UNCHANGED <<producer, tableVars>>

(***************************************************************************)
(* Calls of the descriptors.                                               *)
(***************************************************************************)
CallTable ==
    /\ descriptor = "Table"
    /\ element = NotRendered
    /\ element' = Table(attrs)
    /\ UNCHANGED <<descriptor, attrs, pageVars>>

CallTableHeader ==
    /\ descriptor = "TableHeader"
    /\ element = NotRendered
    /\ element' = TableHeader(attrs)
    /\ UNCHANGED <<descriptor, attrs, pageVars>>

CallTableBody ==
    /\ descriptor = "TableBody"
    /\ element = NotRendered
    /\ element' = TableBody(attrs)
    /\ UNCHANGED <<descriptor, attrs, pageVars>>

CallTableFooter ==
    /\ descriptor = "TableFooter"
    /\ element = NotRendered
    /\ element' = TableFooter(attrs)
    /\ UNCHANGED <<descriptor, attrs, pageVars>>

CallTableHead ==
    /\ descriptor = "TableHead"
    /\ element = NotRendered
    /\ element' = TableHead(attrs)
    /\ UNCHANGED <<descriptor, attrs, pageVars>>

CallTableRow ==
    /\ descriptor = "TableRow"
    /\ element = NotRendered
    /\ element' = TableRow(attrs)
    /\ UNCHANGED <<descriptor, attrs, pageVars>>

CallTableCell ==
    /\ descriptor = "TableCell"
    /\ element = NotRendered
    /\ element' = TableCell(attrs)
    /\ UNCHANGED <<descriptor, attrs, pageVars>>

CallTableCaption ==
    /\ descriptor = "TableCaption"
    /\ element = NotRendered
    /\ element' = TableCaption(attrs)
    /\ UNCHANGED <<descriptor, attrs, pageVars>>

(***************************************************************************)
(* Specifications.                                                         *)
(***************************************************************************)
PageIdle ==
    /\ producer = [r \in Renders |-> [s \in Sections |-> "idle"]]
    /\ boundary = [r \in Renders |-> [s \in Sections |-> "unmounted"]]

TableIdle ==
    /\ descriptor = "Table"
    /\ attrs = EmptyBag
    /\ element = NotRendered

Init ==
    /\ descriptor \in Descriptors
    /\ attrs \in AttributeBags
    /\ element = NotRendered
    /\ PageIdle

Next ==
    \/ CallTable
    \/ CallTableHeader
    \/ CallTableBody
    \/ CallTableFooter
    \/ CallTableHead
    \/ CallTableRow
    \/ CallTableCell
    \/ CallTableCaption

Spec == Init /\ [][Next]_vars

PageInit == TableIdle /\ PageIdle

PageNext ==
    \/ \E r \in Renders : Page(r)
    \/ \E r \in Renders, s \in Sections : Resolve(r, s)
    \/ \E r \in Renders, s \in Sections : Retry(r, s)

PageSpec == PageInit /\ [][PageNext]_vars

\* a resolved producer wakes its boundary, which is then retried
FairPageSpec ==
    PageSpec /\ \A r \in Renders, s \in Sections : WF_vars(Retry(r, s))

(***************************************************************************)
(* Properties of the descriptors, checked under Spec.                      *)
(***************************************************************************)
Range(q) == {q[i] : i \in 1..Len(q)}

Called == element # NotRendered

\* the element a descriptor stamps and forwards to: the inner table for
\* Table, the element itself for the others
Produced == IF descriptor = "Table" THEN element.children[1] ELSE element

\* the identifying tag of each descriptor
Slot(d) ==
    CASE d = "Table" -> "table"
      [] d = "TableHeader" -> "table-header"
      [] d = "TableBody" -> "table-body"
      [] d = "TableFooter" -> "table-footer"
      [] d = "TableRow" -> "table-row"
      [] d = "TableHead" -> "table-head"
      [] d = "TableCell" -> "table-cell"
      [] d = "TableCaption" -> "table-caption"

\* the default class set of each descriptor
DefaultClasses(d) ==
    CASE d = "Table" -> TableClasses
      [] d = "TableHeader" -> TableHeaderClasses
      [] d = "TableBody" -> TableBodyClasses
      [] d = "TableFooter" -> TableFooterClasses
      [] d = "TableRow" -> TableRowClasses
      [] d = "TableHead" -> TableHeadClasses
      [] d = "TableCell" -> TableCellClasses
      [] d = "TableCaption" -> TableCaptionClasses

\* the caller's style string (empty when none is supplied)
CallerStyle == IF "className" \in DOMAIN attrs THEN attrs["className"] ELSE <<>>

\* the attributes of the bag other than the style-class string
Forwarded == (DOMAIN attrs) \ {"className"}

\* C1: for every descriptor and every attribute bag, also one holding a
\* data-slot key, the produced element's data-slot is the descriptor's
\* fixed constant.
C1_FixedTagWins ==
    Called => Produced.attrs["data-slot"] = <<Slot(descriptor)>>

\* C2: the class string is the defaults merged with the caller's style
\* string in that order: every default class that conflicts with no caller
\* class is kept, in order and ahead of the caller's classes; a default
\* class that shares a utility group with a caller class is dropped and
\* the caller's (last) class of that group stands.
C2_DefaultsThenCaller ==
    Called =>
        LET D == DefaultClasses(descriptor)
            S == CallerStyle
            out == Produced.attrs["className"]
            Free(c) == ~ \E j \in 1..Len(S) : Conflicts(c, S[j])
            Last(j) == ~ \E k \in (j + 1)..Len(S) : Conflicts(S[j], S[k])
            kept == {j \in 1..Len(S) : Last(j)}
        IN  /\ \A i \in 1..Len(D) : Free(D[i]) => D[i] \in Range(out)
            /\ \A j \in kept : S[j] \in Range(out)
            /\ \A i \in 1..Len(D), j \in kept :
                   Conflicts(D[i], S[j]) =>
                       \A k \in 1..Len(out) :
                           ClassGroup(out[k]) = ClassGroup(D[i]) => out[k] = S[j]
            /\ Len(out) = Len(SelectSeq(D, Free)) + Cardinality(kept)
            /\ SubSeq(out, 1, Len(SelectSeq(D, Free))) = SelectSeq(D, Free)

C2_Witness ==
    /\ Called
    /\ descriptor = "TableFooter"
    /\ CallerStyle = <<"font-bold", "foo">>
    /\ Produced.attrs["className"] =
           <<"bg-muted/50", "border-t", "[&>tr]:last:border-b-0", "font-bold", "foo">>

\* C3: Table yields exactly two nested elements, a container tagged
\* table-container around a table tagged table, and the container's
\* attributes are the same fixed values for every input.
C3_TwoNestedElements ==
    (Called /\ descriptor = "Table") =>
        /\ element.kind = "div"
        /\ element.attrs =
               [k \in {"data-slot", "className"} |->
                   IF k = "data-slot" THEN <<"table-container">>
                   ELSE <<"relative", "w-full", "overflow-x-auto">>]
        /\ Len(element.children) = 1
        /\ element.children[1].kind = "table"
        /\ element.children[1].children = <<>>
        /\ element.children[1].attrs["data-slot"] = <<"table">>

\* C3, the part about the container alone: it never receives the caller's
\* className or pass-through attributes.
C3_ContainerFixed ==
    (Called /\ descriptor = "Table") =>
        /\ element.kind = "div"
        /\ element.attrs =
               [k \in {"data-slot", "className"} |->
                   IF k = "data-slot" THEN <<"table-container">>
                   ELSE <<"relative", "w-full", "overflow-x-auto">>]
        /\ Len(element.children) = 1
        /\ element.children[1].kind = "table"
        /\ element.children[1].children = <<>>

C10_ClassNameConsumed ==
    Called =>
        LET D == DefaultClasses(descriptor)
            out == Produced.attrs["className"]
        IN  IF "className" \in DOMAIN attrs
            THEN out = cn(<<D, attrs["className"]>>)
            ELSE out = cn(<<D>>) /\ out = D

C10_Witness ==
    /\ Called
    /\ descriptor = "TableHead"
    /\ "className" \in DOMAIN attrs
    /\ attrs["className"] = <<"foo", "align-top">>
    /\ Produced.attrs["className"] # attrs["className"]
    /\ Len(Produced.attrs["className"]) = 10

(***************************************************************************)
(* Properties of the page composition, checked under PageSpec and          *)
(* FairPageSpec.                                                           *)
(***************************************************************************)
\* the views inside the home-grid section of render instance r
GridViews(r) == Range(Markup(r).children[1].children)

Shows(r, view) == Rendered(r) /\ view \in GridViews(r)

FallbackOf(s) ==
    IF s = "overview" THEN "CoinOverviewFallback" ELSE "TrendingCoinsFallback"

ContentOf(s) == IF s = "overview" THEN "CoinOverview" ELSE "TrendingCoins"

\* the producer and boundary of one section of one render instance
SectionState(r, s) == <<producer[r][s], boundary[r][s]>>

\* C5: once a section of a render instance shows its real content it
\* shows it in every later state, and does not show its fallback again.
C5_NoReturnToFallback ==
    [][\A r \in Renders, s \in Sections :
          Shows(r, ContentOf(s)) =>
              (Shows(r, ContentOf(s)) /\ ~Shows(r, FallbackOf(s)))']_vars

C5_Witness ==
    \E r \in Renders :
        /\ Shows(r, "CoinOverview")
        /\ ~Shows(r, "CoinOverviewFallback")
        /\ Shows(r, "TrendingCoins")

\* C6: whether a section's producer can resolve, and whether its boundary
\* can swap to the content, depends on that section's state alone, and a
\* step of one section of a rendered page leaves the other as it was.
C6_SectionsIndependent ==
    /\ [](\A r \in Renders, s \in Sections :
             /\ (ENABLED Resolve(r, s)) <=> (producer[r][s] = "pending")
             /\ (ENABLED Retry(r, s)) <=>
                    (producer[r][s] = "resolved" /\ boundary[r][s] = "fallback"))
    /\ [][\A r \in Renders, s \in Sections :
             (Rendered(r) /\ SectionState(r, s)' # SectionState(r, s)) =>
                 \A t \in Sections \ {s} : SectionState(r, t)' = SectionState(r, t)]_vars

C6_Witness ==
    \E r1 \in Renders, r2 \in Renders :
        /\ producer[r1]["overview"] = "pending"
        /\ Shows(r1, "CoinOverviewFallback")
        /\ Shows(r1, "TrendingCoins")
        /\ producer[r2]["trending"] = "pending"
        /\ Shows(r2, "TrendingCoinsFallback")
        /\ Shows(r2, "CoinOverview")

\* C7: the markup of a rendered page holds, for each deferred section,
\* exactly one of its fallback and its content, both fallbacks while
\* neither producer has resolved, and always the static Categories section.
C7_MarkupComplete ==
    \A r \in Renders :
        Rendered(r) =>
            LET m == Markup(r)
            IN  /\ m.kind = "main"
                /\ Len(m.children) = 2
                /\ \A s \in Sections :
                       Shows(r, FallbackOf(s)) # Shows(r, ContentOf(s))
                /\ Len(m.children[1].children) = 2
                /\ (\A s \in Sections : producer[r][s] = "pending") =>
                       m.children[1].children =
                           <<"CoinOverviewFallback", "TrendingCoinsFallback">>
                /\ Len(m.children[2].children) = 1
                /\ m.children[2].children[1].kind = "p"
                /\ m.children[2].children[1].children = <<"Categories">>

C7_Witness ==
    \E r \in Renders :
        /\ Rendered(r)
        /\ \A s \in Sections : producer[r][s] = "pending"
        /\ Markup(r).children[1].children =
               <<"CoinOverviewFallback", "TrendingCoinsFallback">>
        /\ Markup(r).children[2].children[1].children = <<"Categories">>

=============================================================================
